---- MODULE Spec2Model ----
(***************************************************************************)
(* A model of orm/base/base_model.py: the Connection Manager               *)
(* (DataBaseSessionManager), the Entity Base (BaseORM) and the Query       *)
(* Executor (ORM), over one table of one entity type.                      *)
(*                                                                         *)
(* Python semantics the model rests on:                                    *)
(*  - every ORM method runs "async for s in _async_session(): ... return". *)
(*    Leaving the loop body by return or by an exception does not resume   *)
(*    the generator: it stays suspended at its yield, is dropped when the  *)
(*    frame unwinds, and the event loop's async-generator finalizer        *)
(*    schedules aclose() for a later loop iteration (GeneratorExit thrown  *)
(*    at the yield);                                                       *)
(*  - get() iterates the synchronous generator _sync_session(); dropping   *)
(*    it closes it at once (GeneratorExit thrown at the yield);            *)
(*  - GeneratorExit and CancelledError are BaseException, not Exception.   *)
(***************************************************************************)
EXTENDS Integers, Sequences, FiniteSets, TLC

\* ---------------------------------------------------------------- bounds
MaxId   == 2    \* identities the table may hold: 1..MaxId
MaxMgr  == 1    \* DataBaseSessionManager objects ever constructed
MaxOpen == 1    \* async generators dropped and not yet finalized
MaxPreds == 2   \* keys in one filter predicate set
MaxTasks == 3   \* coroutines running Query Executor calls at the same time
MaxWait  == 2   \* sessions waiting for a connection of one pool

\* ------------------------------------------------------------ the entity
None    == "None"       \* Python None / SQL NULL
Missing == "missing"    \* a key absent from a keyword mapping
Ids     == 1..MaxId
MgrIds  == 1..MaxMgr
Cols    == {"name", "email"}
NameVals  == {"a", "b"}     \* values the callers give the column name
EmailVals == {"a"}          \* values the callers give the column email
\* hasattr(model, attr) holds for the columns and the relationship
KnownAttrs == {"id", "name", "email", "posts"}
PredKeys   == {"name", "email", "nope"}
RelAttrs   == {<<"posts">>, <<"nope">>}

NoRow == [present |-> FALSE, name |-> None, email |-> None]
NoEnt == [id |-> 0, name |-> None, email |-> None]
Entity(id, row) == [id |-> id, name |-> row.name, email |-> row.email]

\* keyword mappings: create(**kwargs), update(pk, **kwargs), an instance for save()
CreateMaps == [id : {0} \cup Ids, name : NameVals, email : EmailVals \cup {Missing}]
UpdateMaps ==
  [name : NameVals \cup {Missing}, email : EmailVals \cup {Missing}, nope : {Missing}]
  \cup [name : {"b", Missing}, email : {Missing}, nope : {"a"}]
Fails      == {"none", "stmt", "commit", "refresh"}

\* filter predicate sets: a dict keeps insertion order, so a sequence of <<key, value>>
Pred1 == {<<k, "a">> : k \in PredKeys}
RECURSIVE PredSeqs(_)
PredSeqs(n) ==
  IF n = 0 THEN {<<>>}
  ELSE LET shorter == PredSeqs(n - 1)
       IN shorter \cup {Append(p, c) : p \in {q \in shorter : Len(q) = n - 1},
                                       c \in Pred1}
DistinctKeys(p) == \A i, j \in 1..Len(p) : i # j => p[i][1] # p[j][1]
PredSets == {p \in PredSeqs(MaxPreds) : DistinctKeys(p)}

VARIABLES
  db_manager,   \* BaseORM._db_manager: 0 (None) or the registered manager
  managers,     \* the DataBaseSessionManager objects constructed so far
  table,        \* the committed rows, by identity
  agens,        \* sessions of dropped async generators awaiting aclose(): each
                \* with its commit() and rollback() invocations and closed flag
  last,         \* the last completed call: its arguments, result and session
  created,      \* history: the mapping create() stored at an identity, untouched since
  tasks,        \* the coroutines in flight on the event loop, each in one call
  row_locks,    \* the database's row locks: the task whose open transaction
                \* has written the row, or 0
  commit_clock, \* the number of COMMITs the database has executed
  pool          \* per engine: connections checked out, sessions waiting for one

vars == <<db_manager, managers, table, agens, last, created,
          tasks, row_locks, commit_clock, pool>>
\* the state of concurrent calls, which the calls made one at a time leave alone
concurrent == <<tasks, row_locks, commit_clock, pool>>

\* ------------------------------------------------------------- records
\* a manager: its four attributes (TRUE: set, FALSE: None), whether it has
\* been constructed, and (history) whether close() has returned on it
NoMgr   == [made |-> FALSE, async_engine |-> FALSE, async_sessionmaker |-> FALSE,
            sync_engine |-> FALSE, sync_sessionmaker |-> FALSE, was_closed |-> FALSE]
\* a call's session: sessions the call acquired, statements the call sent to
\* the database, commit() and rollback() invocations on the session so far,
\* and whether the session is closed
NoSession   == [acq |-> 0, stmts |-> 0, com |-> 0, rb |-> 0, closed |-> FALSE]
OpenSession == [acq |-> 1, stmts |-> 0, com |-> 0, rb |-> 0, closed |-> FALSE]
NoMap       == [set |-> FALSE, name |-> Missing, email |-> Missing]
\* no keyword mapping given (a call that takes none)
NoKw        == [id |-> 0, name |-> Missing, email |-> Missing, nope |-> Missing]

\* the record of a completed call.  arg: the identity or manager the call was
\* given (for a predicate call, how many stored rows meet its predicates);
\* bad: what in the input names no attribute of the model ("key": a
\* predicate key, "rel": a relation name, "field": a key of update's
\* mapping); body: how a scope's body ended; kw: the keyword mapping of
\* update() or the instance of save(), preds: the predicate set given, both
\* kept for a call that got its session
Outcome(op, arg, bad, body, kind, ent, rows, n, sess) ==
  [op |-> op, arg |-> arg, bad |-> bad, body |-> body, kind |-> kind,
   ent |-> ent, rows |-> rows, n |-> n, sess |-> sess, kw |-> NoKw, preds |-> <<>>]
Raised(op, arg, bad, kind, sess) ==
  Outcome(op, arg, bad, "-", kind, NoEnt, <<>>, 0, sess)

\* a task: the call it runs (op, pk, F), where it stands in it (pc), the row
\* its session loaded, the net changes its unit of work holds, when its
\* COMMIT executed, and its result
Tasks   == 1..MaxTasks
Engines == {"async", "sync"}
NoF     == [name |-> Missing, email |-> Missing]
IdleTask == [op |-> "idle", pc |-> "idle", pk |-> 0, F |-> NoF, loaded |-> NoRow,
             pending |-> NoF, com_at |-> 0, kind |-> "-", ent |-> NoEnt, rows |-> <<>>]
NoPool  == [out |-> 0, waiting |-> 0, timed_out |-> FALSE]
\* no call is in flight and no connection is checked out
Quiet ==
  /\ tasks = [t \in Tasks |-> IdleTask]
  /\ row_locks = [i \in Ids |-> 0]
  /\ commit_clock = 0
  /\ pool = [e \in Engines |-> NoPool]

Init ==
  /\ db_manager = 0
  /\ managers = [m \in MgrIds |-> NoMgr]
  /\ table = [i \in Ids |-> NoRow]
  /\ agens = <<>>
  /\ last = Raised("init", 0, {}, "ok", NoSession)
  /\ created = [i \in Ids |-> NoMap]
  /\ Quiet

\* ---------------------------------------------------- Connection Manager
\* DataBaseSessionManager.__init__: both engines and both sessionmakers
DataBaseSessionManager(m) ==
  /\ ~managers[m].made
  /\ \A k \in MgrIds : k < m => managers[k].made
  /\ managers' = [managers EXCEPT ![m] =
       [made |-> TRUE, async_engine |-> TRUE, async_sessionmaker |-> TRUE,
        sync_engine |-> TRUE, sync_sessionmaker |-> TRUE, was_closed |-> FALSE]]
  /\ last' = Raised("__init__", m, {}, "ok", NoSession)
  /\ UNCHANGED <<db_manager, table, agens, created>>
  /\ UNCHANGED concurrent

\* BaseORM.initialize
initialize(m) ==
  /\ managers[m].made
  /\ db_manager' = m
  /\ last' = Raised("initialize", m, {}, "ok", NoSession)
  /\ UNCHANGED <<managers, table, agens, created>>
  /\ UNCHANGED concurrent

\* a close() that clears the async engine and sessionmaker only
closed_manager_async_only(mgr) ==
  IF mgr.async_engine
  THEN [mgr EXCEPT !.async_engine = FALSE, !.async_sessionmaker = FALSE]
  ELSE mgr

\* the manager after close(): each engine that is set is disposed and cleared
\* together with its sessionmaker
closed_manager(mgr) ==
  LET a == IF mgr.async_engine
           THEN [mgr EXCEPT !.async_engine = FALSE, !.async_sessionmaker = FALSE]
           ELSE mgr
  IN IF a.sync_engine
     THEN [a EXCEPT !.sync_engine = FALSE, !.sync_sessionmaker = FALSE]
     ELSE a

close(m) ==
  /\ managers[m].made
  /\ managers' = [managers EXCEPT ![m] =
                     [closed_manager(managers[m]) EXCEPT !.was_closed = TRUE]]
  /\ last' = Raised("close", m, {}, "ok", NoSession)
  /\ UNCHANGED <<db_manager, table, agens, created>>
  /\ UNCHANGED concurrent

create_all_tables_result(mgr) ==
  IF ~mgr.async_engine THEN "Uninitialized" ELSE "ok"

create_all_tables(m) ==
  /\ managers[m].made
  /\ last' = Raised("create_all_tables", m, {},
                    create_all_tables_result(managers[m]), NoSession)
  /\ UNCHANGED <<db_manager, managers, table, agens, created>>
  /\ UNCHANGED concurrent

create_all_tables_sync_result(mgr) ==
  IF ~mgr.sync_engine THEN "Uninitialized" ELSE "ok"

create_all_tables_sync(m) ==
  /\ managers[m].made
  /\ last' = Raised("create_all_tables_sync", m, {},
                    create_all_tables_sync_result(managers[m]), NoSession)
  /\ UNCHANGED <<db_manager, managers, table, agens, created>>
  /\ UNCHANGED concurrent

\* async_session from its yield on.  exc is how the body left the scope:
\* "none", "Exception", or "BaseException" (GeneratorExit, CancelledError);
\* commit_fails: the scope's own commit raises.  The enclosing
\* "async with self._async_sessionmaker()" closes the session on every path.
async_session_exit(s, exc, commit_fails) ==
  CASE exc = "none" /\ ~commit_fails ->
         [sess |-> [s EXCEPT !.com = @ + 1, !.closed = TRUE], raised |-> "ok"]
    [] exc = "none" /\ commit_fails ->
         [sess |-> [s EXCEPT !.com = @ + 1, !.rb = @ + 1, !.closed = TRUE],
          raised |-> "Exception"]
    [] exc = "Exception" ->
         [sess |-> [s EXCEPT !.rb = @ + 1, !.closed = TRUE], raised |-> "Exception"]
    [] OTHER ->
         [sess |-> [s EXCEPT !.closed = TRUE], raised |-> "BaseException"]

\* sync_session from its yield on: try / except Exception / finally close
sync_session_exit(s, exc, commit_fails) ==
  CASE exc = "none" /\ ~commit_fails ->
         [sess |-> [s EXCEPT !.com = @ + 1, !.closed = TRUE], raised |-> "ok"]
    [] exc = "none" /\ commit_fails ->
         [sess |-> [s EXCEPT !.com = @ + 1, !.rb = @ + 1, !.closed = TRUE],
          raised |-> "Exception"]
    [] exc = "Exception" ->
         [sess |-> [s EXCEPT !.rb = @ + 1, !.closed = TRUE], raised |-> "Exception"]
    [] OTHER ->
         [sess |-> [s EXCEPT !.closed = TRUE], raised |-> "BaseException"]

BodyExits == {"none", "Exception", "BaseException"}

\* "async with manager.async_session() as s: body", used by a caller directly
async_session(m, exc, commit_fails) ==
  /\ managers[m].made
  /\ exc # "none" => ~commit_fails
  /\ last' =
       IF ~managers[m].async_sessionmaker
       THEN Raised("async_session", m, {}, "Uninitialized", NoSession)
       ELSE LET x == async_session_exit(OpenSession, exc, commit_fails)
            IN Outcome("async_session", m, {}, exc, x.raised, NoEnt, <<>>, 0, x.sess)
  /\ UNCHANGED <<db_manager, managers, table, agens, created>>
  /\ UNCHANGED concurrent

\* "with manager.sync_session() as s: body", used by a caller directly
sync_session(m, exc, commit_fails) ==
  /\ managers[m].made
  /\ exc # "none" => ~commit_fails
  /\ last' =
       IF ~managers[m].sync_sessionmaker
       THEN Raised("sync_session", m, {}, "Uninitialized", NoSession)
       ELSE LET x == sync_session_exit(OpenSession, exc, commit_fails)
            IN Outcome("sync_session", m, {}, exc, x.raised, NoEnt, <<>>, 0, x.sess)
  /\ UNCHANGED <<db_manager, managers, table, agens, created>>
  /\ UNCHANGED concurrent

\* ------------------------------------------------------------ Entity Base
\* an _async_session without the check of _db_manager and of the sessionmaker
async_acquire_unchecked == "ok"

\* BaseORM._async_session up to its yield: the outcome of acquiring
async_acquire ==
  IF db_manager = 0 THEN "Uninitialized"
  ELSE IF ~managers[db_manager].async_sessionmaker THEN "Uninitialized"
  ELSE "ok"

\* BaseORM._sync_session up to its yield
sync_acquire ==
  IF db_manager = 0 THEN "Uninitialized"
  ELSE IF ~managers[db_manager].sync_sessionmaker THEN "Uninitialized"
  ELSE "ok"

\* The event loop's finalizer runs aclose() on the oldest dropped async
\* generator: GeneratorExit is thrown at the yield of _async_session and
\* travels through "async with cls._db_manager.async_session()".
asyncgen_finalizer ==
  /\ Len(agens) > 0
  /\ LET x == async_session_exit(Head(agens), "BaseException", FALSE)
     IN last' = Outcome("aclose", 0, {}, "BaseException", "ok", NoEnt, <<>>, 0,
                        [acq |-> 1, stmts |-> 0, com |-> x.sess.com,
                         rb |-> x.sess.rb, closed |-> x.sess.closed])
  /\ agens' = Tail(agens)
  /\ UNCHANGED <<db_manager, managers, table, created>>
  /\ UNCHANGED concurrent

\* --------------------------------------------------------- Query Executor
\* what the body of an ORM method did inside its session: the result (or the
\* error that left the body), the statements sent, commit() invocations and
\* the committed rows afterwards
B(kind, ent, rows, n, stmts, com, tbl) ==
  [kind |-> kind, ent |-> ent, rows |-> rows, n |-> n,
   stmts |-> stmts, com |-> com, tbl |-> tbl]
Err(kind, stmts, com, tbl) == B(kind, NoEnt, <<>>, 0, stmts, com, tbl)

\* the value a keyword mapping gives a column of a new row
Given(v) == IF v = Missing THEN None ELSE v
\* setattr(instance, key, value) for the keys present in the mapping
Assign(old, v) == IF v = Missing THEN old ELSE v

\* a _filter_conditions that skips the keys the model does not have
filter_conditions_skipping(p) ==
  [err |-> FALSE, conds |-> SelectSeq(p, LAMBDA c : c[1] \in KnownAttrs)]

\* ORM._filter_conditions: the conditions in the mapping's order, or the
\* AttributeError raised at the first key the model does not have
RECURSIVE filter_conditions_from(_, _)
filter_conditions_from(p, i) ==
  IF i > Len(p) THEN [err |-> FALSE, conds |-> <<>>]
  ELSE IF p[i][1] \in KnownAttrs
       THEN LET rest == filter_conditions_from(p, i + 1)
            IN [err |-> rest.err, conds |-> <<p[i]>> \o rest.conds]
       ELSE [err |-> TRUE, conds |-> <<>>]
filter_conditions(p) == filter_conditions_from(p, 1)

\* the database's answer to select(model).where(*conds): the rows that meet
\* every condition, in storage order.  The order is the database's choice:
\* rev picks one of two orders where the call's result depends on it (the
\* row first() takes); lists are given by ascending identity.
IdOrder(rev) == [i \in 1..MaxId |-> IF rev THEN MaxId + 1 - i ELSE i]
\* a where() that joins the conditions by OR
Meets_any(tbl, id, conds) ==
  /\ tbl[id].present
  /\ \E k \in 1..Len(conds) : Entity(id, tbl[id])[conds[k][1]] = conds[k][2]
Meets(tbl, id, conds) ==
  /\ tbl[id].present
  /\ \A k \in 1..Len(conds) : Entity(id, tbl[id])[conds[k][1]] = conds[k][2]
Select(tbl, conds, rev) ==
  LET ids == SelectSeq(IdOrder(rev), LAMBDA id : Meets(tbl, id, conds))
  IN [k \in 1..Len(ids) |-> Entity(ids[k], tbl[ids[k]])]

\* a create that returns the instance without committing it
create_body_uncommitted(F, newid, fail) ==
  LET id  == IF F.id # 0 THEN F.id ELSE newid
      row == [present |-> TRUE, name |-> Given(F.name), email |-> Given(F.email)]
  IN B("entity", Entity(id, row), <<>>, 0, 1, 0, table)

\* ORM.create, the loop body: construct, add, commit (the INSERT is flushed
\* here), refresh, return
create_body(F, newid, fail) ==
  LET id  == IF F.id # 0 THEN F.id ELSE newid
      row == [present |-> TRUE, name |-> Given(F.name), email |-> Given(F.email)]
      tbl == [table EXCEPT ![id] = row]
  IN CASE fail = "commit"     -> Err("DBError", 1, 1, table)
       [] table[id].present   -> Err("IntegrityError", 1, 1, table)
       [] fail = "refresh"    -> Err("DBError", 2, 1, tbl)
       [] OTHER               -> B("entity", Entity(id, row), <<>>, 0, 2, 1, tbl)

\* ORM.get, the loop body
get_body(pk, fail) ==
  CASE fail = "stmt"        -> Err("DBError", 1, 0, table)
    [] table[pk].present    -> B("entity", Entity(pk, table[pk]), <<>>, 0, 1, 0, table)
    [] OTHER                -> Err("None", 1, 0, table)

\* an update without the "if not instance" check: setattr on None raises
update_body_unchecked(pk, F, fail) ==
  LET row == [present |-> TRUE, name |-> Assign(table[pk].name, F.name),
              email |-> Assign(table[pk].email, F.email)]
      tbl == [table EXCEPT ![pk] = row]
  IN CASE fail = "stmt"        -> Err("DBError", 1, 0, table)
       [] ~table[pk].present   -> Err("AttributeError", 1, 0, table)
       [] fail = "commit"      -> Err("DBError", 2, 1, table)
       [] fail = "refresh"     -> Err("DBError", 3, 1, tbl)
       [] OTHER                -> B("entity", Entity(pk, row), <<>>, 0, 3, 1, tbl)

\* an update that inserts the row when the identity is not stored
update_body_upserting(pk, F, fail) ==
  LET old == IF table[pk].present THEN table[pk] ELSE NoRow
      row == [present |-> TRUE, name |-> Assign(old.name, F.name),
              email |-> Assign(old.email, F.email)]
      tbl == [table EXCEPT ![pk] = row]
  IN CASE fail = "stmt"        -> Err("DBError", 1, 0, table)
       [] fail = "commit"      -> Err("DBError", 2, 1, table)
       [] fail = "refresh"     -> Err("DBError", 3, 1, tbl)
       [] OTHER                -> B("entity", Entity(pk, row), <<>>, 0, 3, 1, tbl)

\* an update that writes the mapping as the whole row: columns the mapping
\* does not list are reset
update_body_replacing(pk, F, fail) ==
  LET row == [present |-> TRUE, name |-> Given(F.name), email |-> Given(F.email)]
      tbl == [table EXCEPT ![pk] = row]
  IN CASE fail = "stmt"        -> Err("DBError", 1, 0, table)
       [] ~table[pk].present   -> Err("None", 1, 0, table)
       [] fail = "commit"      -> Err("DBError", 2, 1, table)
       [] fail = "refresh"     -> Err("DBError", 3, 1, tbl)
       [] OTHER                -> B("entity", Entity(pk, row), <<>>, 0, 3, 1, tbl)

\* ORM.update, the loop body.  setattr of a key the model does not have
\* sets a plain Python attribute and raises nothing.
update_body(pk, F, fail) ==
  LET row == [present |-> TRUE, name |-> Assign(table[pk].name, F.name),
              email |-> Assign(table[pk].email, F.email)]
      tbl == [table EXCEPT ![pk] = row]
  IN CASE fail = "stmt"        -> Err("DBError", 1, 0, table)
       [] ~table[pk].present   -> Err("None", 1, 0, table)
       [] fail = "commit"      -> Err("DBError", 2, 1, table)
       [] fail = "refresh"     -> Err("DBError", 3, 1, tbl)
       [] OTHER                -> B("entity", Entity(pk, row), <<>>, 0, 3, 1, tbl)

\* a delete that returns True without committing the removal
delete_body_uncommitted(pk, fail) ==
  CASE fail = "stmt"        -> Err("DBError", 1, 0, table)
    [] ~table[pk].present   -> Err("False", 1, 0, table)
    [] OTHER                -> Err("True", 2, 0, table)

\* ORM.delete, the loop body
delete_body(pk, fail) ==
  CASE fail = "stmt"        -> Err("DBError", 1, 0, table)
    [] ~table[pk].present   -> Err("False", 1, 0, table)
    [] fail = "commit"      -> Err("DBError", 2, 1, table)
    [] OTHER                -> Err("True", 2, 1, [table EXCEPT ![pk] = NoRow])

\* ORM.all, the loop body
all_body(fail) ==
  IF fail = "stmt" THEN Err("DBError", 1, 0, table)
  ELSE B("list", NoEnt, Select(table, <<>>, FALSE), 0, 1, 0, table)

\* ORM.filter, the loop body: the conditions are built inside the session,
\* before execute
filter_body(P, fail) ==
  LET fc == filter_conditions(P)
  IN CASE fc.err          -> Err("AttributeError", 0, 0, table)
       [] fail = "stmt"   -> Err("DBError", 1, 0, table)
       [] OTHER           -> B("list", NoEnt, Select(table, fc.conds, FALSE), 0, 1, 0, table)

\* a first that takes the row out of the table as it returns it
first_body_popping(P, fail, rev) ==
  LET fc   == filter_conditions(P)
      rows == Select(table, fc.conds, rev)
  IN CASE fc.err          -> Err("AttributeError", 0, 0, table)
       [] fail = "stmt"   -> Err("DBError", 1, 0, table)
       [] Len(rows) = 0   -> Err("None", 1, 0, table)
       [] OTHER           -> B("entity", rows[1], <<>>, 0, 2, 1,
                               [table EXCEPT ![rows[1].id] = NoRow])

\* ORM.first, the loop body
first_body(P, fail, rev) ==
  LET fc   == filter_conditions(P)
      rows == Select(table, fc.conds, rev)
  IN CASE fc.err          -> Err("AttributeError", 0, 0, table)
       [] fail = "stmt"   -> Err("DBError", 1, 0, table)
       [] Len(rows) = 0   -> Err("None", 1, 0, table)
       [] OTHER           -> B("entity", rows[1], <<>>, 0, 1, 0, table)

\* ORM.count, the loop body
count_body(fail) ==
  IF fail = "stmt" THEN Err("DBError", 1, 0, table)
  ELSE B("int", NoEnt, <<>>, Cardinality({i \in Ids : table[i].present}), 1, 0, table)

\* ORM.exists: "await self.first(**filters) is not None"
exists_body(P, fail) ==
  LET f == first_body(P, fail, FALSE)
  IN CASE f.kind = "entity" -> [f EXCEPT !.kind = "True", !.ent = NoEnt]
       [] f.kind = "None"   -> [f EXCEPT !.kind = "False"]
       [] OTHER             -> f

\* ORM.select_related: the check of the relation names, before any session
select_related_attrs_ok(attrs) ==
  \A k \in 1..Len(attrs) : attrs[k] \in KnownAttrs

\* ORM.select_related, the loop body
select_related_body(P, fail, rev) ==
  LET fc   == filter_conditions(P)
      rows == Select(table, fc.conds, rev)
  IN CASE fc.err            -> Err("AttributeError", 0, 0, table)
       [] fail = "stmt"     -> Err("DBError", 1, 0, table)
       [] Len(rows) = 0     -> Err("None", 1, 0, table)
       [] fail = "refresh"  -> Err("DBError", 2, 0, table)
       [] OTHER             -> B("entity", rows[1], <<>>, 0, 2, 0, table)

\* a save that adds the instance to the session instead of merging it: the
\* INSERT of a stored identity fails at commit
save_body_adding(I, newid, fail) ==
  LET id    == IF I.id # 0 THEN I.id ELSE newid
      row   == [present |-> TRUE, name |-> Given(I.name), email |-> Given(I.email)]
      tbl   == [table EXCEPT ![id] = row]
  IN CASE fail = "commit"           -> Err("DBError", 1, 1, table)
       [] table[id].present         -> Err("IntegrityError", 1, 1, table)
       [] fail = "refresh"          -> Err("DBError", 2, 1, tbl)
       [] OTHER                     -> B("entity", Entity(id, row), <<>>, 0, 2, 1, tbl)

\* BaseORM.save, the loop body: merge (a SELECT by identity when the
\* instance has one; its set attributes are copied onto the row found, or a
\* new row is pending), commit, refresh, return
save_body(I, newid, fail) ==
  LET found == I.id # 0 /\ table[I.id].present
      id    == IF I.id # 0 THEN I.id ELSE newid
      row   == IF found
               THEN [present |-> TRUE, name |-> Assign(table[id].name, I.name),
                     email |-> Assign(table[id].email, I.email)]
               ELSE [present |-> TRUE, name |-> Given(I.name), email |-> Given(I.email)]
      tbl   == [table EXCEPT ![id] = row]
      sel   == IF I.id # 0 THEN 1 ELSE 0
  IN CASE I.id # 0 /\ fail = "stmt" -> Err("DBError", 1, 0, table)
       [] fail = "commit"           -> Err("DBError", sel + 1, 1, table)
       [] fail = "refresh"          -> Err("DBError", sel + 2, 1, tbl)
       [] OTHER                     -> B("entity", Entity(id, row), <<>>, 0, sel + 2, 1, tbl)

\* ------------------------------------------------------------ the calls
UnknownKey(P) == \E k \in 1..Len(P) : P[k][1] \notin KnownAttrs
BadKey(P)     == IF UnknownKey(P) THEN {"key"} ELSE {}
BadRel(attrs) == IF \E k \in 1..Len(attrs) : attrs[k] \notin KnownAttrs
                 THEN {"rel"} ELSE {}
\* the stored rows that meet every predicate of a set of known keys
Matching(P) ==
  {i \in Ids : table[i].present /\
               \A k \in 1..Len(P) : Entity(i, table[i])[P[k][1]] = P[k][2]}
MatchCount(P) == IF UnknownKey(P) THEN 0 ELSE Cardinality(Matching(P))
\* the keyword mapping of a call on identity id, as the call record keeps it
Kw(id, F) ==
  [id |-> id, name |-> F.name, email |-> F.email,
   nope |-> IF "nope" \in DOMAIN F THEN F.nope ELSE Missing]
BadField(F) == IF F.nope # Missing THEN {"field"} ELSE {}

\* the session acquisition raised: nothing was opened
uninitialized(op, arg, bad) ==
  /\ last' = Raised(op, arg, bad, "Uninitialized", NoSession)
  /\ UNCHANGED <<table, agens>>

\* An async ORM method leaves its loop body, by return or by an exception:
\* the generator is dropped still suspended at its yield, so neither the
\* scope's commit nor its rollback nor the close has run when the caller
\* gets the result.
async_return_given(op, arg, bad, b, kw, preds) ==
  /\ Len(agens) < MaxOpen
  /\ table' = b.tbl
  /\ agens' = Append(agens, [com |-> b.com, rb |-> 0, closed |-> FALSE])
  /\ last' = [Outcome(op, arg, bad, "-", b.kind, b.ent, b.rows, b.n,
                      [OpenSession EXCEPT !.stmts = b.stmts, !.com = b.com])
                EXCEPT !.kw = kw, !.preds = preds]
async_return(op, arg, bad, b) == async_return_given(op, arg, bad, b, NoKw, <<>>)

\* get() leaves its loop body: the synchronous generator is closed as the
\* frame unwinds, GeneratorExit travels through sync_session
sync_return(op, arg, bad, b) ==
  LET x == sync_session_exit([OpenSession EXCEPT !.stmts = b.stmts, !.com = b.com],
                             "BaseException", FALSE)
  IN /\ table' = b.tbl
     /\ last' = Outcome(op, arg, bad, "-", b.kind, b.ent, b.rows, b.n, x.sess)
     /\ UNCHANGED agens

create(F, newid, fail) ==
  /\ IF F.id = 0 THEN ~table[newid].present ELSE newid = F.id
  /\ fail \in {"none", "commit", "refresh"}
  /\ IF async_acquire # "ok"
     THEN /\ uninitialized("create", 0, {})
          /\ UNCHANGED created
     ELSE LET b == create_body(F, newid, fail)
          IN /\ async_return("create", 0, {}, b)
             /\ created' = IF b.kind = "entity"
                           THEN [created EXCEPT ![b.ent.id] =
                                   [set |-> TRUE, name |-> F.name, email |-> F.email]]
                           ELSE created
  /\ UNCHANGED <<db_manager, managers>>
  /\ UNCHANGED concurrent

get(pk, fail) ==
  /\ fail \in {"none", "stmt"}
  /\ IF sync_acquire # "ok"
     THEN uninitialized("get", pk, {})
     ELSE sync_return("get", pk, {}, get_body(pk, fail))
  /\ UNCHANGED <<db_manager, managers, created>>
  /\ UNCHANGED concurrent

update(pk, F, fail) ==
  /\ IF async_acquire # "ok"
     THEN /\ uninitialized("update", pk, BadField(F))
          /\ UNCHANGED created
     ELSE LET b == update_body(pk, F, fail)
          IN /\ async_return_given("update", pk, BadField(F), b, Kw(pk, F), <<>>)
             /\ created' = IF b.com = 1 /\ fail # "commit"
                           THEN [created EXCEPT ![pk] = NoMap]
                           ELSE created
  /\ UNCHANGED <<db_manager, managers>>
  /\ UNCHANGED concurrent

delete(pk, fail) ==
  /\ fail \in {"none", "stmt", "commit"}
  /\ IF async_acquire # "ok"
     THEN /\ uninitialized("delete", pk, {})
          /\ UNCHANGED created
     ELSE LET b == delete_body(pk, fail)
          IN /\ async_return("delete", pk, {}, b)
             /\ created' = IF b.kind = "True"
                           THEN [created EXCEPT ![pk] = NoMap]
                           ELSE created
  /\ UNCHANGED <<db_manager, managers>>
  /\ UNCHANGED concurrent

all(fail) ==
  /\ fail \in {"none", "stmt"}
  /\ IF async_acquire # "ok"
     THEN uninitialized("all", 0, {})
     ELSE async_return("all", 0, {}, all_body(fail))
  /\ UNCHANGED <<db_manager, managers, created>>
  /\ UNCHANGED concurrent

filter(P, fail) ==
  /\ fail \in {"none", "stmt"}
  /\ IF async_acquire # "ok"
     THEN uninitialized("filter", MatchCount(P), BadKey(P))
     ELSE async_return_given("filter", MatchCount(P), BadKey(P), filter_body(P, fail), NoKw, P)
  /\ UNCHANGED <<db_manager, managers, created>>
  /\ UNCHANGED concurrent

first(P, fail, rev) ==
  /\ fail \in {"none", "stmt"}
  /\ IF async_acquire # "ok"
     THEN uninitialized("first", MatchCount(P), BadKey(P))
     ELSE async_return_given("first", MatchCount(P), BadKey(P), first_body(P, fail, rev), NoKw, P)
  /\ UNCHANGED <<db_manager, managers, created>>
  /\ UNCHANGED concurrent

count(fail) ==
  /\ fail \in {"none", "stmt"}
  /\ IF async_acquire # "ok"
     THEN uninitialized("count", 0, {})
     ELSE async_return("count", 0, {}, count_body(fail))
  /\ UNCHANGED <<db_manager, managers, created>>
  /\ UNCHANGED concurrent

exists(P, fail) ==
  /\ fail \in {"none", "stmt"}
  /\ IF async_acquire # "ok"
     THEN uninitialized("exists", MatchCount(P), BadKey(P))
     ELSE async_return_given("exists", MatchCount(P), BadKey(P), exists_body(P, fail), NoKw, P)
  /\ UNCHANGED <<db_manager, managers, created>>
  /\ UNCHANGED concurrent

select_related(attrs, P, fail, rev) ==
  /\ fail \in {"none", "stmt", "refresh"}
  /\ fail = "refresh" => ~rev     \* a failed refresh raises whatever the order
  /\ LET bad == BadKey(P) \cup BadRel(attrs)
     IN IF ~select_related_attrs_ok(attrs)
        THEN /\ last' = Raised("select_related", MatchCount(P), bad,
                               "AttributeError", NoSession)
             /\ UNCHANGED <<table, agens>>
        ELSE IF async_acquire # "ok"
        THEN uninitialized("select_related", MatchCount(P), bad)
        ELSE async_return_given("select_related", MatchCount(P), bad,
                                select_related_body(P, fail, rev), NoKw, P)
  /\ UNCHANGED <<db_manager, managers, created>>
  /\ UNCHANGED concurrent

save(I, newid, fail) ==
  /\ IF I.id = 0 THEN ~table[newid].present ELSE newid = I.id
  /\ IF async_acquire # "ok"
     THEN /\ uninitialized("save", I.id, {})
          /\ UNCHANGED created
     ELSE LET b == save_body(I, newid, fail)
          IN /\ async_return_given("save", I.id, {}, b, Kw(I.id, I), <<>>)
             /\ created' = IF b.tbl # table \/ b.kind = "entity"
                           THEN [created EXCEPT ![newid] = NoMap]
                           ELSE created
  /\ UNCHANGED <<db_manager, managers>>
  /\ UNCHANGED concurrent

Next ==
  \/ \E m \in MgrIds : DataBaseSessionManager(m)
  \/ \E m \in MgrIds : initialize(m)
  \/ \E m \in MgrIds : close(m)
  \/ \E m \in MgrIds : create_all_tables(m)
  \/ \E m \in MgrIds : create_all_tables_sync(m)
  \/ \E m \in MgrIds, exc \in BodyExits, cf \in BOOLEAN : async_session(m, exc, cf)
  \/ \E m \in MgrIds, exc \in BodyExits, cf \in BOOLEAN : sync_session(m, exc, cf)
  \/ asyncgen_finalizer
  \/ \E F \in CreateMaps, newid \in Ids, fail \in Fails : create(F, newid, fail)
  \/ \E pk \in Ids, fail \in Fails : get(pk, fail)
  \/ \E pk \in Ids, F \in UpdateMaps, fail \in Fails : update(pk, F, fail)
  \/ \E pk \in Ids, fail \in Fails : delete(pk, fail)
  \/ \E fail \in Fails : all(fail)
  \/ \E P \in PredSets, fail \in Fails : filter(P, fail)
  \/ \E P \in PredSets, fail \in Fails, rev \in BOOLEAN : first(P, fail, rev)
  \/ \E fail \in Fails : count(fail)
  \/ \E P \in PredSets, fail \in Fails : exists(P, fail)
  \/ \E attrs \in RelAttrs, P \in PredSets, fail \in Fails, rev \in BOOLEAN :
       select_related(attrs, P, fail, rev)
  \/ \E I \in CreateMaps, newid \in Ids, fail \in Fails : save(I, newid, fail)

Spec == Init /\ [][Next]_vars

\* ------------------------------------------------- calls running concurrently
\* Coroutines on one event loop, each running one Query Executor call.  A
\* call runs without interruption up to an await of a database round trip;
\* each round trip is one step, and the steps of different calls interleave.
\* The database runs each session's transaction at READ COMMITTED (the
\* PostgreSQL default the engine URLs select): a statement reads the rows
\* committed when it executes, an UPDATE locks its row until the transaction
\* ends, and a COMMIT publishes the transaction's writes at once.
RaceVals == {"a", "b"}
RaceMaps == [name : RaceVals, email : RaceVals \cup {Missing}]
RaceRow  == [present |-> TRUE, name |-> "a", email |-> "a"]
RaceTable == [i \in Ids |-> IF i = 1 THEN RaceRow ELSE NoRow]
\* a registered, open manager and one stored row: the state Spec reaches by
\* DataBaseSessionManager(1), initialize(1), create(name="a", email="a")
InitRace ==
  /\ db_manager = 1
  /\ managers = [m \in MgrIds |->
       IF m = 1
       THEN [made |-> TRUE, async_engine |-> TRUE, async_sessionmaker |-> TRUE,
             sync_engine |-> TRUE, sync_sessionmaker |-> TRUE, was_closed |-> FALSE]
       ELSE NoMgr]
  /\ table = RaceTable
  /\ agens = <<>>
  /\ last = Raised("init", 0, {}, "ok", NoSession)
  /\ created = [i \in Ids |-> NoMap]
  /\ Quiet

\* the next coroutine to start (coroutines are interchangeable)
Starts(t) ==
  /\ tasks[t].pc = "idle"
  /\ \A u \in Tasks : u < t => tasks[u].pc # "idle"
Finished(t, kind, ent, rows) ==
  [tasks[t] EXCEPT !.pc = "done", !.kind = kind, !.ent = ent, !.rows = rows]
sequential == <<db_manager, managers, agens, last, created, pool>>

\* an UPDATE that sets every key of the mapping, changed or not
net_change_all(loaded, F) == F

\* The unit of work's net change: setattr records the loaded value of each
\* attribute it sets, and the flush writes only the attributes whose value
\* differs from the loaded one.
net_change(loaded, F) ==
  [c \in Cols |-> IF F[c] # Missing /\ F[c] # loaded[c] THEN F[c] ELSE Missing]
Written(row, pending) ==
  [present |-> TRUE, name |-> Assign(row.name, pending.name),
   email |-> Assign(row.email, pending.email)]

\* update(pk, **F) up to its commit: session, "await db_session.get", the
\* "if not instance" return, the setattr loop
update_get(t, pk, F) ==
  /\ Starts(t)
  /\ async_acquire = "ok"
  /\ tasks' = [tasks EXCEPT ![t] =
       IF ~table[pk].present
       THEN [IdleTask EXCEPT !.op = "update", !.pk = pk, !.F = F,
                             !.pc = "done", !.kind = "None"]
       ELSE [IdleTask EXCEPT !.op = "update", !.pk = pk, !.F = F, !.pc = "flush",
                             !.loaded = table[pk],
                             !.pending = net_change(table[pk], F)]]
  /\ UNCHANGED <<table, row_locks, commit_clock>>
  /\ UNCHANGED sequential

\* "await db_session.commit()", the flush: the UPDATE of the net change, if
\* there is one, waits for the row's lock and takes it
update_flush(t) ==
  /\ tasks[t].op = "update" /\ tasks[t].pc = "flush"
  /\ IF tasks[t].pending = NoF
     THEN UNCHANGED row_locks
     ELSE /\ row_locks[tasks[t].pk] = 0
          /\ row_locks' = [row_locks EXCEPT ![tasks[t].pk] = t]
  /\ tasks' = [tasks EXCEPT ![t].pc = "commit"]
  /\ UNCHANGED <<table, commit_clock>>
  /\ UNCHANGED sequential

\* "await db_session.commit()", the COMMIT
update_commit(t) ==
  /\ tasks[t].op = "update" /\ tasks[t].pc = "commit"
  /\ table' = IF tasks[t].pending = NoF THEN table
              ELSE [table EXCEPT ![tasks[t].pk] = Written(@, tasks[t].pending)]
  /\ row_locks' = [i \in Ids |-> IF row_locks[i] = t THEN 0 ELSE row_locks[i]]
  /\ commit_clock' = commit_clock + 1
  /\ tasks' = [tasks EXCEPT ![t].pc = "refresh", ![t].com_at = commit_clock + 1]
  /\ UNCHANGED sequential

\* "await db_session.refresh(instance)" and the return
update_refresh(t) ==
  /\ tasks[t].op = "update" /\ tasks[t].pc = "refresh"
  /\ tasks' = [tasks EXCEPT ![t] =
       Finished(t, "entity", Entity(tasks[t].pk, table[tasks[t].pk]), <<>>)]
  /\ UNCHANGED <<table, row_locks, commit_clock>>
  /\ UNCHANGED sequential

\* the identities a transaction in flight has inserted and not yet committed
Inserting == {tasks[t].pk : t \in {u \in Tasks : tasks[u].op = "create"
                                                  /\ tasks[u].pc = "commit"}}
\* create(**F) with no identity given, up to the flush inside commit(): the
\* INSERT takes the next identity of the sequence
create_flush(t, F, newid) ==
  /\ Starts(t)
  /\ async_acquire = "ok"
  /\ ~table[newid].present /\ newid \notin Inserting
  /\ \A i \in Ids : i < newid => (table[i].present \/ i \in Inserting)
  /\ tasks' = [tasks EXCEPT ![t] =
       [IdleTask EXCEPT !.op = "create", !.pk = newid, !.F = F, !.pc = "commit"]]
  /\ UNCHANGED <<table, row_locks, commit_clock>>
  /\ UNCHANGED sequential

create_commit(t) ==
  /\ tasks[t].op = "create" /\ tasks[t].pc = "commit"
  /\ table' = [table EXCEPT ![tasks[t].pk] =
       [present |-> TRUE, name |-> Given(tasks[t].F.name),
        email |-> Given(tasks[t].F.email)]]
  /\ commit_clock' = commit_clock + 1
  /\ tasks' = [tasks EXCEPT ![t].pc = "refresh", ![t].com_at = commit_clock + 1]
  /\ UNCHANGED row_locks
  /\ UNCHANGED sequential

create_refresh(t) ==
  /\ tasks[t].op = "create" /\ tasks[t].pc = "refresh"
  /\ tasks' = [tasks EXCEPT ![t] =
       Finished(t, "entity", Entity(tasks[t].pk, table[tasks[t].pk]), <<>>)]
  /\ UNCHANGED <<table, row_locks, commit_clock>>
  /\ UNCHANGED sequential

\* get(pk): the synchronous session blocks the event loop, so the whole call
\* is one step
get_execute(t, pk) ==
  /\ Starts(t)
  /\ sync_acquire = "ok"
  /\ tasks' = [tasks EXCEPT ![t] =
       IF table[pk].present
       THEN [IdleTask EXCEPT !.op = "get", !.pk = pk, !.pc = "done",
                             !.kind = "entity", !.ent = Entity(pk, table[pk])]
       ELSE [IdleTask EXCEPT !.op = "get", !.pk = pk, !.pc = "done",
                             !.kind = "None"]]
  /\ UNCHANGED <<table, row_locks, commit_clock>>
  /\ UNCHANGED sequential

\* all(): one SELECT
all_execute(t) ==
  /\ Starts(t)
  /\ async_acquire = "ok"
  /\ tasks' = [tasks EXCEPT ![t] =
       [IdleTask EXCEPT !.op = "all", !.pc = "done", !.kind = "list",
                        !.rows = Select(table, <<>>, FALSE)]]
  /\ UNCHANGED <<table, row_locks, commit_clock>>
  /\ UNCHANGED sequential

NextRace ==
  \/ \E t \in Tasks, pk \in Ids, F \in RaceMaps : update_get(t, pk, F)
  \/ \E t \in Tasks : update_flush(t)
  \/ \E t \in Tasks : update_commit(t)
  \/ \E t \in Tasks : update_refresh(t)
  \/ \E t \in Tasks, F \in RaceMaps, newid \in Ids : create_flush(t, F, newid)
  \/ \E t \in Tasks : create_commit(t)
  \/ \E t \in Tasks : create_refresh(t)
  \/ \E t \in Tasks, pk \in Ids : get_execute(t, pk)
  \/ \E t \in Tasks : all_execute(t)

SpecRace == InitRace /\ [][NextRace]_vars

\* ------------------------------------------------------ the connection pools
\* Each engine is created with pool_size=5, max_overflow=2, pool_timeout=10:
\* a queue pool that hands out at most pool_size + max_overflow connections
\* at a time.  A session asks its engine's pool for a connection when it
\* sends its first statement and gives it back when it commits or is closed;
\* while the pool is exhausted the session waits, and after pool_timeout
\* seconds of waiting its statement fails with a timeout error.
pool_size    == 5
max_overflow == 2

\* the session factory of an engine is set on the registered manager
engine_acquire(e) == IF e = "async" THEN async_acquire ELSE sync_acquire

\* a pool created with no limit on its overflow (max_overflow=-1)
pool_get_unbounded(p) == [p EXCEPT !.out = @ + 1]

\* the pool is asked for a connection: one is handed out while fewer than
\* pool_size + max_overflow are checked out, else the session waits
pool_get(p) ==
  IF p.out < pool_size + max_overflow
  THEN [p EXCEPT !.out = @ + 1]
  ELSE [p EXCEPT !.waiting = @ + 1]

\* a session of engine e sends its first statement
pool_checkout(e) ==
  /\ engine_acquire(e) = "ok"
  /\ pool_get(pool[e]).waiting <= MaxWait
  /\ pool' = [pool EXCEPT ![e] = pool_get(@)]
  /\ UNCHANGED <<db_manager, managers, table, agens, last, created,
                 tasks, row_locks, commit_clock>>

\* a session commits or is closed: its connection goes back to the pool
pool_checkin(e) ==
  /\ pool[e].out > 0
  /\ pool' = [pool EXCEPT ![e].out = @ - 1]
  /\ UNCHANGED <<db_manager, managers, table, agens, last, created,
                 tasks, row_locks, commit_clock>>

\* a waiting session gets the connection another session gave back
pool_wait_granted(e) ==
  /\ pool[e].waiting > 0
  /\ pool[e].out < pool_size + max_overflow
  /\ pool' = [pool EXCEPT ![e].waiting = @ - 1, ![e].out = @ + 1]
  /\ UNCHANGED <<db_manager, managers, table, agens, last, created,
                 tasks, row_locks, commit_clock>>

\* pool_timeout seconds pass for a waiting session: its call fails
pool_wait_timeout(e) ==
  /\ pool[e].waiting > 0
  /\ pool' = [pool EXCEPT ![e].waiting = @ - 1, ![e].timed_out = TRUE]
  /\ UNCHANGED <<db_manager, managers, table, agens, last, created,
                 tasks, row_locks, commit_clock>>

NextPool ==
  \/ \E e \in Engines : pool_checkout(e)
  \/ \E e \in Engines : pool_checkin(e)
  \/ \E e \in Engines : pool_wait_granted(e)
  \/ \E e \in Engines : pool_wait_timeout(e)

SpecPool == InitRace /\ [][NextPool]_vars

\* ------------------------------------------------------------ the claims
ExecutorOps == {"create", "get", "update", "delete", "all", "filter", "first",
                "count", "exists", "select_related"}
PredicateOps == {"filter", "first", "exists", "select_related"}
ScopeOps  == {"async_session", "sync_session"}
DBErrors  == {"DBError", "IntegrityError"}
\* results that come from the environment, not from the call's arguments
EnvErrors == {"Uninitialized", "DBError"}
RowCount(t) == Cardinality({i \in Ids : t[i].present})
\* the entity carries every field the mapping gave
CarriesFields(ent, F) ==
  \A c \in Cols : F[c] # Missing => ent[c] = F[c]

\* C1: a session scope of the Connection Manager that has been left is
\* closed; if its body completed normally commit was invoked; if the body or
\* the commit raised, rollback was invoked and the body's error is the one
\* raised; no exit leaves the session neither committed nor rolled back.
\* (The scope is left either by a direct caller or by aclose() of the
\* generator an ORM method dropped.)
C1_ScopeCommitsOrRollsBack ==
  (last.op \in ScopeOps \cup {"aclose"} /\ last.sess.acq = 1) =>
     /\ last.sess.closed
     /\ last.body = "none" => last.sess.com >= 1
     /\ (last.body # "none" \/ last.kind # "ok") => last.sess.rb >= 1
     /\ (last.op \in ScopeOps /\ last.body # "none") => last.kind = last.body
     /\ last.sess.com >= 1 \/ last.sess.rb >= 1

\* C2: when the statement or the commit of a Query Executor operation fails
\* with a database-level error, rollback has been invoked on the operation's
\* session when the error reaches the caller, and the stored rows are those
\* from before the operation.
C2_RollbackBeforeErrorReachesCaller ==
  [][(last'.op \in ExecutorOps /\ last'.kind \in DBErrors) =>
        (last'.sess.rb >= 1 /\ table' = table)]_vars

\* C3: every Query Executor operation that gets to run acquires exactly one
\* session and has closed it when it returns, with a result or an error, so
\* that no session opened by a completed operation is still open.
C3_SessionReleasedAtReturn ==
  /\ (last.op \in ExecutorOps /\ last.kind # "Uninitialized" /\ "rel" \notin last.bad)
        => (last.sess.acq = 1 /\ last.sess.closed)
  /\ Len(agens) = 0

\* C4: filter, first, exists and select_related given a predicate set with a
\* key that is no attribute of the model send no statement, and (an open
\* Connection Manager being registered) fail with AttributeError.
C4_UnknownKeyFailsBeforeExecute ==
  (last.op \in PredicateOps /\ "key" \in last.bad) =>
     /\ last.sess.stmts = 0
     /\ last.kind \in {"AttributeError", "Uninitialized"}
     /\ (db_manager # 0 /\ managers[db_manager].async_sessionmaker)
           => last.kind = "AttributeError"
C4_Witness ==
  /\ last.op = "select_related" /\ last.bad = {"key"}
  /\ last.kind = "AttributeError" /\ last.sess.acq = 1

\* C5: create(F) returns an entity with an identity and F's fields whose row
\* is committed when create returns, and a get(id) of that identity, with no
\* update, delete or save of it in between, returns an entity with F's fields
\* (the database not failing).
C5_CreateThenGetRoundTrip ==
  /\ (last.op = "create" /\ last.kind = "entity") =>
        /\ last.ent.id \in Ids
        /\ created[last.ent.id].set
        /\ CarriesFields(last.ent, created[last.ent.id])
        /\ table[last.ent.id].present
  /\ (last.op = "get" /\ last.kind \notin EnvErrors /\ created[last.arg].set) =>
        /\ last.kind = "entity"
        /\ last.ent.id = last.arg
        /\ CarriesFields(last.ent, created[last.arg])
C5_Witness ==
  /\ last.op = "get" /\ last.kind = "entity"
  /\ created[last.arg].set /\ created[last.arg].email # Missing
  /\ \E i \in Ids : i # last.arg /\ table[i].present

\* C6: get(id) and update(id, fields) of an identity that is not stored, and
\* first and select_related whose (valid) predicates no row meets, return
\* None and do not raise (the manager being open and the database not failing).
C6_AbsentGivesNone ==
  /\ (last.op \in {"get", "update"} /\ ~table[last.arg].present
        /\ last.kind \notin EnvErrors) => last.kind = "None"
  /\ (last.op \in {"first", "select_related"} /\ last.bad = {} /\ last.arg = 0
        /\ last.kind \notin EnvErrors) => last.kind = "None"
C6_Witness ==
  /\ last.op = "update" /\ ~table[last.arg].present /\ last.kind = "None"
  /\ \E i \in Ids : table[i].present

\* C7: delete(id) of a stored identity returns true and removes that row and
\* no other; delete(id) of an identity that is not stored returns false and
\* removes nothing; a get(id) of an identity that is not stored, as after its
\* delete, returns None (the database not failing).
C7_DeleteRemovesExactlyTheRow ==
  [][/\ (last'.op = "delete" /\ last'.kind \notin EnvErrors) =>
          IF table[last'.arg].present
          THEN last'.kind = "True" /\ table' = [table EXCEPT ![last'.arg] = NoRow]
          ELSE last'.kind = "False" /\ table' = table
     /\ (last.op = "delete" /\ last.kind = "True" /\ last'.op = "get"
           /\ last'.arg = last.arg /\ last'.kind \notin EnvErrors)
          => last'.kind = "None"]_vars
C7_Witness ==
  /\ last.op = "delete" /\ last.kind = "True"
  /\ ~table[last.arg].present
  /\ \E i \in Ids : table[i].present

\* C8: from the empty table the number of rows is the successful creates
\* minus the deletes that returned true, and count() returns it: a
\* successful create adds one row, a delete that returns true removes one,
\* count() returns the number of rows, and every other call (update, save of
\* a stored identity, reads, failed calls) leaves the number unchanged.  Only
\* a successful save() of an identity that is not stored is left open.
C8_CountIsCreatesMinusDeletes ==
  [][LET d == RowCount(table') - RowCount(table)
         created_one == last'.op = "create" /\ last'.kind = "entity"
         deleted_one == last'.op = "delete" /\ last'.kind = "True"
         saved_new   == /\ last'.op = "save" /\ last'.kind = "entity"
                        /\ (last'.arg = 0 \/ ~table[last'.arg].present)
     IN /\ created_one => d = 1
        /\ deleted_one => d = -1
        /\ (last'.op = "count" /\ last'.kind = "int") => last'.n = RowCount(table)
        /\ ~(created_one \/ deleted_one \/ saved_new) => d = 0]_vars

C10_ClosedManagerHandsOutNothing ==
  /\ \A m \in MgrIds : managers[m].was_closed =>
        /\ ~managers[m].async_engine /\ ~managers[m].async_sessionmaker
        /\ ~managers[m].sync_engine /\ ~managers[m].sync_sessionmaker
  /\ (last.op \in ScopeOps \cup {"create_all_tables", "create_all_tables_sync"}
        /\ managers[last.arg].was_closed)
        => (last.kind = "Uninitialized" /\ last.sess.acq = 0)
  /\ (last.op \in ExecutorOps \cup {"save"} /\ db_manager # 0
        /\ managers[db_manager].was_closed)
        => /\ last.sess.acq = 0
           /\ "rel" \notin last.bad => last.kind = "Uninitialized"
C10_Witness ==
  /\ last.op = "sync_session" /\ managers[last.arg].was_closed
  /\ last.kind = "Uninitialized"
  /\ db_manager = last.arg

\* C11: update(id, fields) of a stored identity, where fields has a key that
\* is no attribute of the model, fails with AttributeError (an open manager
\* being registered and the database not failing).
C11_UpdateUnknownFieldRaises ==
  [][(last'.op = "update" /\ "field" \in last'.bad /\ table[last'.arg].present
        /\ last'.kind \notin EnvErrors) => last'.kind = "AttributeError"]_vars

\* C12: update(id, fields) of a stored identity with a mapping of known
\* fields returns the entity with that identity, each listed field at its
\* given value and each unlisted field as it was; the stored row becomes
\* exactly that and no other row changes; a get(id) issued next returns the
\* same entity (an open manager being registered, the database not failing).
C12_UpdateSetsExactlyTheListedFields ==
  [][/\ (last'.op = "update" /\ last'.bad = {} /\ table[last'.arg].present
           /\ last'.kind \notin EnvErrors) =>
          /\ last'.kind = "entity"
          /\ last'.ent.id = last'.arg
          /\ \A c \in Cols :
                last'.ent[c] = IF last'.kw[c] # Missing THEN last'.kw[c]
                               ELSE table[last'.arg][c]
          /\ table'[last'.arg].present
          /\ \A c \in Cols : table'[last'.arg][c] = last'.ent[c]
          /\ \A i \in Ids \ {last'.arg} : table'[i] = table[i]
     /\ (last.op = "update" /\ last.kind = "entity" /\ last'.op = "get"
           /\ last'.arg = last.arg /\ last'.kind \notin EnvErrors)
          => (last'.kind = "entity" /\ last'.ent = last.ent)]_vars
C12_Witness ==
  /\ last.op = "update" /\ last.kind = "entity"
  /\ last.kw.name = "b" /\ last.kw.email = Missing
  /\ last.ent.name = "b" /\ last.ent.email = "a"
  /\ \E i \in Ids : i # last.arg /\ table[i].present

\* C13: for a predicate set P whose keys are all columns of the model,
\* filter(P) returns exactly the stored entities that meet every predicate of
\* P, each once (so filter of the empty P and all() both return every stored
\* entity), exists(P) returns true exactly when some stored entity meets P,
\* and first(P) returns None exactly when none does and otherwise one of the
\* entities that meet P (an open manager, the database not failing).
Sat(P) == {Entity(i, table[i]) : i \in Matching(P)}
RowSet(rows) == {rows[k] : k \in 1..Len(rows)}
C13_FilterExistsFirstAgree ==
  /\ (last.op = "filter" /\ last.bad = {} /\ last.kind \notin EnvErrors) =>
        /\ last.kind = "list"
        /\ RowSet(last.rows) = Sat(last.preds)
        /\ Len(last.rows) = Cardinality(Sat(last.preds))
  /\ (last.op = "all" /\ last.kind \notin EnvErrors) =>
        /\ last.kind = "list"
        /\ RowSet(last.rows) = Sat(<<>>)
        /\ Len(last.rows) = Cardinality(Sat(<<>>))
  /\ (last.op = "exists" /\ last.bad = {} /\ last.kind \notin EnvErrors) =>
        last.kind = IF Sat(last.preds) # {} THEN "True" ELSE "False"
  /\ (last.op = "first" /\ last.bad = {} /\ last.kind \notin EnvErrors) =>
        IF Sat(last.preds) = {} THEN last.kind = "None"
        ELSE last.kind = "entity" /\ last.ent \in Sat(last.preds)
C13_Witness ==
  /\ last.op = "filter" /\ last.kind = "list" /\ Len(last.preds) = 2
  /\ Len(last.rows) = 1 /\ RowCount(table) = 2

\* C14: save() of an instance whose identity is stored updates that row to
\* the attribute values the instance has set and leaves the number of rows
\* unchanged; save() of an instance with no identity, or with an identity
\* that is not stored, inserts exactly one row, under the instance's
\* identity if it has one; either way no other row changes and the returned
\* entity carries the identity and the values of the row as stored (an open
\* manager, the database not failing).
C14_SaveIsUpsert ==
  [][(last'.op = "save" /\ last'.kind \notin EnvErrors) =>
       LET I     == last'.kw
           id    == last'.ent.id
           found == I.id # 0 /\ table[I.id].present
       IN /\ last'.kind = "entity"
          /\ id \in Ids
          /\ I.id # 0 => id = I.id
          /\ IF found
             THEN /\ RowCount(table') = RowCount(table)
                  /\ \A c \in Cols : I[c] = Missing => table'[id][c] = table[id][c]
             ELSE /\ RowCount(table') = RowCount(table) + 1
                  /\ ~table[id].present
          /\ table'[id].present
          /\ \A c \in Cols : I[c] # Missing => table'[id][c] = I[c]
          /\ \A i \in Ids \ {id} : table'[i] = table[i]
          /\ \A c \in Cols : last'.ent[c] = table'[id][c]]_vars
C14_Witness ==
  /\ last.op = "save" /\ last.kind = "entity"
  /\ last.kw.id = last.ent.id /\ last.kw.name = "b"
  /\ last.kw.email = Missing /\ last.ent.email = "a"
  /\ RowCount(table) = 2

\* C15: when the update calls against one stored identity have all
\* returned and at least two of them wrote a field, the field holds the value
\* written by the one of them whose COMMIT executed last; and every update
\* call that found the row returns an entity.
Updaters(pk) == {t \in Tasks : tasks[t].op = "update" /\ tasks[t].pk = pk}
C15_LastCommitWins ==
  \A pk \in Ids :
    /\ \A t \in Updaters(pk) :
         (tasks[t].pc = "done" /\ tasks[t].loaded.present) => tasks[t].kind = "entity"
    /\ \A c \in Cols :
         LET wrote == {t \in Updaters(pk) : tasks[t].kind = "entity"
                                            /\ tasks[t].F[c] # Missing}
         IN (Cardinality(wrote) >= 2 /\ \A t \in Updaters(pk) : tasks[t].pc = "done")
              => \E t \in wrote :
                   /\ \A u \in wrote : tasks[u].com_at <= tasks[t].com_at
                   /\ table[pk][c] = tasks[t].F[c]

\* C16: every row a concurrent get or all() returns is a row that whole
\* calls produce: the row the table started with, changed by some of the
\* update and create calls made, one after another in some order, each
\* applied with all of its fields.  A row holding only some of the fields of
\* an update, or a created row lacking fields, is not such a row.
Writers(i) == {t \in Tasks : tasks[t].op \in {"update", "create"} /\ tasks[t].pk = i}
WholeCall(t, row) ==
  IF tasks[t].op = "update"
  THEN IF row.present
       THEN [present |-> TRUE, name |-> Assign(row.name, tasks[t].F.name),
             email |-> Assign(row.email, tasks[t].F.email)]
       ELSE row
  ELSE IF row.present THEN row
       ELSE [present |-> TRUE, name |-> Given(tasks[t].F.name),
             email |-> Given(tasks[t].F.email)]
RECURSIVE SerialRows(_, _)
SerialRows(row, calls) ==
  {row} \cup UNION {SerialRows(WholeCall(t, row), calls \ {t}) : t \in calls}
Observed(t) ==
  IF tasks[t].op = "get" /\ tasks[t].kind = "entity" THEN {tasks[t].ent}
  ELSE IF tasks[t].op = "all" THEN {tasks[t].rows[k] : k \in 1..Len(tasks[t].rows)}
  ELSE {}
C16_NoPartialEffectObserved ==
  \A t \in Tasks : \A e \in Observed(t) :
    \E row \in SerialRows(RaceTable[e.id], Writers(e.id)) :
      row.present /\ Entity(e.id, row) = e

C18_AttributeErrorBeforeAcquisition ==
  (last.op \in PredicateOps /\ last.kind = "AttributeError") => last.sess.acq = 0

\* C19: get, all, filter, first, count, exists and select_related leave the
\* stored rows as they were, whatever the call returns or raises.
ReadOps == {"get", "all", "filter", "first", "count", "exists", "select_related"}
C19_ReadsLeaveRowsUnchanged ==
  [][last'.op \in ReadOps => table' = table]_vars
C19_Witness ==
  /\ last.op = "select_related" /\ last.kind = "entity" /\ last.sess.stmts = 2
  /\ RowCount(table) = 2

\* C20: update(id, fields) and delete(id) of an identity that is not stored
\* leave the stored rows as they were and invoke no commit, whatever the
\* mapping, the empty one included.
C20_AbsentWritesChangeNothing ==
  [][(last'.op \in {"update", "delete"} /\ ~table[last'.arg].present) =>
        /\ table' = table
        /\ last'.sess.com = 0
        /\ last'.kind # "Uninitialized" => agens'[Len(agens')].com = 0]_vars
C20_Witness ==
  /\ last.op = "update" /\ last.kind = "None" /\ last.sess.com = 0
  /\ last.kw.name = Missing /\ last.kw.email = Missing /\ last.kw.nope = Missing
  /\ ~table[last.arg].present /\ RowCount(table) = 1

====
